---- MODULE Spec2Model ----
(***************************************************************************)
(* Simple-harmonic-motion simulator (src/script.js): the simulation clock, *)
(* the frame loop, the parameter store with its validation flags, the drag *)
(* interaction, the time-windowed sample buffer and the key-point          *)
(* annotator.                                                              *)
(*                                                                         *)
(* Units.  JavaScript numbers are modelled in fixed point:                 *)
(*   times and timestamps      milliseconds                                *)
(*   parameters                thousandths of their unit (kg, N/m, m,      *)
(*                             degrees, m/s^2, rad)                        *)
(*   angular frequency         milliradians per second                     *)
(*   angles omega*t + phase    microradians                                *)
(***************************************************************************)
EXTENDS Integers, Sequences, FiniteSets, TLC

VARIABLES
    simulationMode,   \* 'spring' or 'pendulum'
    params,           \* the seven physical parameters
    simulation,       \* time, isRunning, animationId, lastTimestamp, timeScale
    validationState,  \* one validity flag per parameter field
    dragState,        \* isDragging, wasRunning
    graphData,        \* the three sample series
    charts,           \* per chart: x axis and key-point datasets
    current,          \* the values last shown by updateCurrentValues
    startBtn,         \* the start button (disabled or not)
    frames,           \* the host's pending frame requests
    now,              \* the host's clock, ms
    inputCount,       \* number of parameter inputs so far
    appended,         \* the samples appended since the series were last emptied
    dragged,          \* where the last drag has drawn the body, if it is still there
    lastOp            \* the operation just performed

vars == <<simulationMode, params, simulation, validationState, dragState,
          graphData, charts, current, startBtn, frames, now, inputCount,
          appended, dragged, lastOp>>

(***************************************************************************)
(* Bounds of the model.                                                    *)
(***************************************************************************)
\* wall-clock horizon (ms) of the specification Spec
MaxNow == 160
\* wall-clock horizon (ms) of the specification SpecLong
MaxNowLong == 7500
\* SpecLong takes user operations up to the instant OpsUntil (ms), and the
\* mouse moves of a drag still in progress from the instant MovesFrom on
OpsUntil == 375
MovesFrom == 7125
\* number of parameter inputs (text field or slider) in one behaviour
MaxInputs == 2

(***************************************************************************)
(* Program constants.                                                      *)
(***************************************************************************)
Fields == {"mass", "springConstant", "amplitude", "pendulumLength",
           "pendulumAngle", "gravity", "phase"}
Modes == {"spring", "pendulum"}
SignalTypes == {"position", "velocity", "acceleration"}

\* graphData.timeWindow = 5 s
timeWindow == 5000
\* the literal 0.5 s of addDataPoint
margin == 500
\* graphData.maxPoints
maxPoints == 500
\* the literal 0.1 s of animate
MaxDelta == 100
\* Math.PI in microradians (even, so that Pi = 2 * HalfPi)
Pi == 3141592
HalfPi == Pi \div 2
TwoPi == 2 * Pi

\* the value to which a JavaScript number that is NaN is mapped
NaN == -1000000

InitParams == [mass |-> 1000, springConstant |-> 40000, amplitude |-> 150,
               pendulumLength |-> 1500, pendulumAngle |-> 10000,
               gravity |-> 9800, phase |-> 0]

\* min and max passed to validateAndUpdate by each text-field listener
RangeMin == [mass |-> 500, springConstant |-> 10000, amplitude |-> 10,
             pendulumLength |-> 500, pendulumAngle |-> 1000,
             gravity |-> 1000, phase |-> 0]
RangeMax == [mass |-> 5000, springConstant |-> 100000, amplitude |-> 500,
             pendulumLength |-> 3000, pendulumAngle |-> 15000,
             gravity |-> 20000, phase |-> 6280]

(***************************************************************************)
(* Number helpers.                                                         *)
(***************************************************************************)
Min(a, b) == IF a <= b THEN a ELSE b
Max(a, b) == IF a >= b THEN a ELSE b

\* Math.floor(a / b) and Math.ceil(a / b) for b > 0
FloorDiv(a, b) == a \div b
CeilDiv(a, b) == -((-a) \div b)

RECURSIVE SqrtBetween(_, _, _)
SqrtBetween(n, lo, hi) ==
    IF lo >= hi THEN lo
    ELSE LET mid == (lo + hi + 1) \div 2
         IN  IF mid * mid <= n THEN SqrtBetween(n, mid, hi)
                               ELSE SqrtBetween(n, lo, mid - 1)

\* Math.sqrt on non-negative integers, rounded down
Sqrt(n) == SqrtBetween(n, 0, 46340)

\* Math.sin of an angle in [0, Pi] microradians, in thousandths
\* (Bhaskara's rational approximation of the sine)
SinHalfTurn(a) ==
    LET x  == a \div 1000
        pm == Pi \div 1000
        p  == x * (pm - x)
    IN  (16 * p) \div ((5 * pm * pm - 4 * p) \div 1000)

\* Math.sin and Math.cos of an angle in microradians, in thousandths
Sin(angle) ==
    LET a == angle % TwoPi
    IN  IF a <= Pi THEN SinHalfTurn(a) ELSE -SinHalfTurn(a - Pi)
Cos(angle) == Sin(angle + HalfPi)

(***************************************************************************)
(* Physics ("Calculos fisicos").  The functions of the source read the     *)
(* globals simulationMode and params; here they take them as arguments.    *)
(***************************************************************************)
\* angular frequency in milliradians per second
calculateOmega(mode, p) ==
    IF mode = "spring"
    THEN Sqrt(((p.springConstant * 1000) \div p.mass) * 1000)
    ELSE Sqrt(((p.gravity * 1000) \div p.pendulumLength) * 1000)

\* period in milliseconds
calculatePeriod(mode, p) == TwoPi \div calculateOmega(mode, p)

\* amplitude in thousandths of a metre (spring) or milliradians (pendulum)
getAmplitude(mode, p) ==
    IF mode = "spring" THEN p.amplitude
    ELSE (p.pendulumAngle * (Pi \div 1000)) \div 180000

\* omega * t + params.phase in microradians, t in milliseconds
PhaseAngle(mode, p, t) == calculateOmega(mode, p) * t + p.phase * 1000

calculatePosition(mode, p, t) ==
    (getAmplitude(mode, p) * Cos(PhaseAngle(mode, p, t))) \div 1000

calculateVelocity(mode, p, t) ==
    ((((-getAmplitude(mode, p)) * calculateOmega(mode, p)) \div 1000)
        * Sin(PhaseAngle(mode, p, t))) \div 1000

\* calculateAcceleration with one factor omega instead of two
calculateAccelerationOmegaOnce(mode, p, t) ==
    ((((-getAmplitude(mode, p)) * calculateOmega(mode, p)) \div 1000)
        * Cos(PhaseAngle(mode, p, t))) \div 1000

calculateAcceleration(mode, p, t) ==
    ((((((-getAmplitude(mode, p)) * calculateOmega(mode, p)) \div 1000)
        * calculateOmega(mode, p)) \div 1000)
        * Cos(PhaseAngle(mode, p, t))) \div 1000

(***************************************************************************)
(* Sample buffer (graphData) and key points.                               *)
(***************************************************************************)
EmptyGraphData == [position |-> <<>>, velocity |-> <<>>, acceleration |-> <<>>]

RECURSIVE ShiftPositionWhileOld(_, _)
\* the while loop shifting the position series only
ShiftPositionWhileOld(g, minTime) ==
    IF Len(g.position) > 0 /\ g.position[1].x < minTime
    THEN ShiftPositionWhileOld([g EXCEPT !.position = Tail(g.position)], minTime)
    ELSE g

RECURSIVE ShiftWhileOld(_, _)
\* the while loop of addDataPoint: shift all three series while the first
\* position sample is older than minTime
ShiftWhileOld(g, minTime) ==
    IF Len(g.position) > 0 /\ g.position[1].x < minTime
    THEN ShiftWhileOld([position     |-> Tail(g.position),
                        velocity     |-> Tail(g.velocity),
                        acceleration |-> Tail(g.acceleration)], minTime)
    ELSE g

addDataPoint(g, mode, time, position, velocity, acceleration) ==
    LET positionForGraph ==
            IF mode = "pendulum"
            THEN (position * 180000) \div (Pi \div 1000)
            ELSE position
        pushed == [position     |-> Append(g.position, [x |-> time, y |-> positionForGraph]),
                   velocity     |-> Append(g.velocity, [x |-> time, y |-> velocity]),
                   acceleration |-> Append(g.acceleration, [x |-> time, y |-> acceleration])]
    IN  ShiftWhileOld(pushed, time - timeWindow - margin)

\* A key-point time is the rational num / den milliseconds (den = omega).
KeyTime(angle, phi, omega) == [num |-> angle - phi * 1000, den |-> omega]
\* t >= minTime, t <= maxTime for a key-point time t and a time in ms
KeyTimeGeq(t, ms) == t.num >= ms * t.den
KeyTimeLeq(t, ms) == t.num <= ms * t.den

\* the loop body of calculateKeyPoints without the test against simulation.time
KeyPointsOfNUnfiltered(n, minTime, maxTime, type, mode, omega, phi, A, simTime) ==
    LET tMax  == CASE type = "position"     -> KeyTime(TwoPi * n, phi, omega)
                   [] type = "velocity"     -> KeyTime(3 * HalfPi + TwoPi * n, phi, omega)
                   [] type = "acceleration" -> KeyTime((2 * n + 1) * Pi, phi, omega)
        tMin  == CASE type = "position"     -> KeyTime((2 * n + 1) * Pi, phi, omega)
                   [] type = "velocity"     -> KeyTime(HalfPi + TwoPi * n, phi, omega)
                   [] type = "acceleration" -> KeyTime(TwoPi * n, phi, omega)
        tZero1 == CASE type = "position"     -> KeyTime(HalfPi + TwoPi * n, phi, omega)
                    [] type = "velocity"     -> KeyTime(TwoPi * n, phi, omega)
                    [] type = "acceleration" -> KeyTime(HalfPi + TwoPi * n, phi, omega)
        tZero2 == CASE type = "position"     -> KeyTime(3 * HalfPi + TwoPi * n, phi, omega)
                    [] type = "velocity"     -> KeyTime(Pi + TwoPi * n, phi, omega)
                    [] type = "acceleration" -> KeyTime(3 * HalfPi + TwoPi * n, phi, omega)
        yMax  == CASE type = "position" ->
                        IF mode = "pendulum" THEN (A * 180000) \div (Pi \div 1000) ELSE A
                   [] type = "velocity" -> (A * omega) \div 1000
                   [] type = "acceleration" -> (((A * omega) \div 1000) * omega) \div 1000
        yMin  == CASE type = "position" ->
                        IF mode = "pendulum" THEN ((-A) * 180000) \div (Pi \div 1000) ELSE -A
                   [] type = "velocity" -> ((-A) * omega) \div 1000
                   [] type = "acceleration" -> ((((-A) * omega) \div 1000) * omega) \div 1000
        shown(t) == KeyTimeGeq(t, minTime) /\ KeyTimeLeq(t, maxTime)
    IN  [maximos |-> IF shown(tMax) THEN <<[x |-> tMax, y |-> yMax]>> ELSE <<>>,
         minimos |-> IF shown(tMin) THEN <<[x |-> tMin, y |-> yMin]>> ELSE <<>>,
         ceros   |-> (IF shown(tZero1) THEN <<[x |-> tZero1, y |-> 0]>> ELSE <<>>)
                     \o (IF shown(tZero2) THEN <<[x |-> tZero2, y |-> 0]>> ELSE <<>>)]

\* the loop body with the times of the velocity maximum and minimum exchanged
KeyPointsOfNVelocitySwapped(n, minTime, maxTime, type, mode, omega, phi, A, simTime) ==
    LET tMax  == CASE type = "position"     -> KeyTime(TwoPi * n, phi, omega)
                   [] type = "velocity"     -> KeyTime(HalfPi + TwoPi * n, phi, omega)
                   [] type = "acceleration" -> KeyTime((2 * n + 1) * Pi, phi, omega)
        tMin  == CASE type = "position"     -> KeyTime((2 * n + 1) * Pi, phi, omega)
                   [] type = "velocity"     -> KeyTime(3 * HalfPi + TwoPi * n, phi, omega)
                   [] type = "acceleration" -> KeyTime(TwoPi * n, phi, omega)
        tZero1 == CASE type = "position"     -> KeyTime(HalfPi + TwoPi * n, phi, omega)
                    [] type = "velocity"     -> KeyTime(TwoPi * n, phi, omega)
                    [] type = "acceleration" -> KeyTime(HalfPi + TwoPi * n, phi, omega)
        tZero2 == CASE type = "position"     -> KeyTime(3 * HalfPi + TwoPi * n, phi, omega)
                    [] type = "velocity"     -> KeyTime(Pi + TwoPi * n, phi, omega)
                    [] type = "acceleration" -> KeyTime(3 * HalfPi + TwoPi * n, phi, omega)
        yMax  == CASE type = "position" ->
                        IF mode = "pendulum" THEN (A * 180000) \div (Pi \div 1000) ELSE A
                   [] type = "velocity" -> (A * omega) \div 1000
                   [] type = "acceleration" -> (((A * omega) \div 1000) * omega) \div 1000
        yMin  == CASE type = "position" ->
                        IF mode = "pendulum" THEN ((-A) * 180000) \div (Pi \div 1000) ELSE -A
                   [] type = "velocity" -> ((-A) * omega) \div 1000
                   [] type = "acceleration" -> ((((-A) * omega) \div 1000) * omega) \div 1000
        shown(t) == KeyTimeGeq(t, minTime) /\ KeyTimeLeq(t, maxTime) /\ KeyTimeLeq(t, simTime)
    IN  [maximos |-> IF shown(tMax) THEN <<[x |-> tMax, y |-> yMax]>> ELSE <<>>,
         minimos |-> IF shown(tMin) THEN <<[x |-> tMin, y |-> yMin]>> ELSE <<>>,
         ceros   |-> (IF shown(tZero1) THEN <<[x |-> tZero1, y |-> 0]>> ELSE <<>>)
                     \o (IF shown(tZero2) THEN <<[x |-> tZero2, y |-> 0]>> ELSE <<>>)]

\* the loop body without the test of a time against minTime
KeyPointsOfNNoLowerLimit(n, minTime, maxTime, type, mode, omega, phi, A, simTime) ==
    LET tMax  == CASE type = "position"     -> KeyTime(TwoPi * n, phi, omega)
                   [] type = "velocity"     -> KeyTime(3 * HalfPi + TwoPi * n, phi, omega)
                   [] type = "acceleration" -> KeyTime((2 * n + 1) * Pi, phi, omega)
        tMin  == CASE type = "position"     -> KeyTime((2 * n + 1) * Pi, phi, omega)
                   [] type = "velocity"     -> KeyTime(HalfPi + TwoPi * n, phi, omega)
                   [] type = "acceleration" -> KeyTime(TwoPi * n, phi, omega)
        tZero1 == CASE type = "position"     -> KeyTime(HalfPi + TwoPi * n, phi, omega)
                    [] type = "velocity"     -> KeyTime(TwoPi * n, phi, omega)
                    [] type = "acceleration" -> KeyTime(HalfPi + TwoPi * n, phi, omega)
        tZero2 == CASE type = "position"     -> KeyTime(3 * HalfPi + TwoPi * n, phi, omega)
                    [] type = "velocity"     -> KeyTime(Pi + TwoPi * n, phi, omega)
                    [] type = "acceleration" -> KeyTime(3 * HalfPi + TwoPi * n, phi, omega)
        yMax  == CASE type = "position" ->
                        IF mode = "pendulum" THEN (A * 180000) \div (Pi \div 1000) ELSE A
                   [] type = "velocity" -> (A * omega) \div 1000
                   [] type = "acceleration" -> (((A * omega) \div 1000) * omega) \div 1000
        yMin  == CASE type = "position" ->
                        IF mode = "pendulum" THEN ((-A) * 180000) \div (Pi \div 1000) ELSE -A
                   [] type = "velocity" -> ((-A) * omega) \div 1000
                   [] type = "acceleration" -> ((((-A) * omega) \div 1000) * omega) \div 1000
        shown(t) == KeyTimeLeq(t, maxTime) /\ KeyTimeLeq(t, simTime)
    IN  [maximos |-> IF shown(tMax) THEN <<[x |-> tMax, y |-> yMax]>> ELSE <<>>,
         minimos |-> IF shown(tMin) THEN <<[x |-> tMin, y |-> yMin]>> ELSE <<>>,
         ceros   |-> (IF shown(tZero1) THEN <<[x |-> tZero1, y |-> 0]>> ELSE <<>>)
                     \o (IF shown(tZero2) THEN <<[x |-> tZero2, y |-> 0]>> ELSE <<>>)]

\* the body of the for loop of calculateKeyPoints for one n; omega, phi and A
\* are the constants the function computes before the loop
KeyPointsOfN(n, minTime, maxTime, type, mode, omega, phi, A, simTime) ==
    LET tMax  == CASE type = "position"     -> KeyTime(TwoPi * n, phi, omega)
                   [] type = "velocity"     -> KeyTime(3 * HalfPi + TwoPi * n, phi, omega)
                   [] type = "acceleration" -> KeyTime((2 * n + 1) * Pi, phi, omega)
        tMin  == CASE type = "position"     -> KeyTime((2 * n + 1) * Pi, phi, omega)
                   [] type = "velocity"     -> KeyTime(HalfPi + TwoPi * n, phi, omega)
                   [] type = "acceleration" -> KeyTime(TwoPi * n, phi, omega)
        tZero1 == CASE type = "position"     -> KeyTime(HalfPi + TwoPi * n, phi, omega)
                    [] type = "velocity"     -> KeyTime(TwoPi * n, phi, omega)
                    [] type = "acceleration" -> KeyTime(HalfPi + TwoPi * n, phi, omega)
        tZero2 == CASE type = "position"     -> KeyTime(3 * HalfPi + TwoPi * n, phi, omega)
                    [] type = "velocity"     -> KeyTime(Pi + TwoPi * n, phi, omega)
                    [] type = "acceleration" -> KeyTime(3 * HalfPi + TwoPi * n, phi, omega)
        yMax  == CASE type = "position" ->
                        IF mode = "pendulum" THEN (A * 180000) \div (Pi \div 1000) ELSE A
                   [] type = "velocity" -> (A * omega) \div 1000
                   [] type = "acceleration" -> (((A * omega) \div 1000) * omega) \div 1000
        yMin  == CASE type = "position" ->
                        IF mode = "pendulum" THEN ((-A) * 180000) \div (Pi \div 1000) ELSE -A
                   [] type = "velocity" -> ((-A) * omega) \div 1000
                   [] type = "acceleration" -> ((((-A) * omega) \div 1000) * omega) \div 1000
        shown(t) == KeyTimeGeq(t, minTime) /\ KeyTimeLeq(t, maxTime) /\ KeyTimeLeq(t, simTime)
    IN  [maximos |-> IF shown(tMax) THEN <<[x |-> tMax, y |-> yMax]>> ELSE <<>>,
         minimos |-> IF shown(tMin) THEN <<[x |-> tMin, y |-> yMin]>> ELSE <<>>,
         ceros   |-> (IF shown(tZero1) THEN <<[x |-> tZero1, y |-> 0]>> ELSE <<>>)
                     \o (IF shown(tZero2) THEN <<[x |-> tZero2, y |-> 0]>> ELSE <<>>)]

NoKeyPoints == [maximos |-> <<>>, minimos |-> <<>>, ceros |-> <<>>]

RECURSIVE KeyPointsLoop(_, _, _, _, _, _, _, _, _, _, _)
\* for (let n = startN; n <= endN; n++), acc holding the three lists so far
KeyPointsLoop(n, endN, acc, minTime, maxTime, type, mode, omega, phi, A, simTime) ==
    IF n > endN THEN acc
    ELSE LET k == KeyPointsOfN(n, minTime, maxTime, type, mode, omega, phi, A, simTime)
         IN  KeyPointsLoop(n + 1, endN,
                           [maximos |-> acc.maximos \o k.maximos,
                            minimos |-> acc.minimos \o k.minimos,
                            ceros   |-> acc.ceros \o k.ceros],
                           minTime, maxTime, type, mode, omega, phi, A, simTime)

\* calculateKeyPoints starting the loop at the ceiling of the first index
calculateKeyPointsCeilStart(minTime, maxTime, type, mode, p, simTime) ==
    LET omega == calculateOmega(mode, p) IN
    LET startN == CeilDiv(minTime * omega + p.phase * 1000, TwoPi)
        endN   == CeilDiv(maxTime * omega + p.phase * 1000, TwoPi) + 1
    IN  KeyPointsLoop(startN, endN, NoKeyPoints, minTime, maxTime, type, mode,
                      omega, p.phase, getAmplitude(mode, p), simTime)

\* simTime is the global simulation.time the function reads
calculateKeyPoints(minTime, maxTime, type, mode, p, simTime) ==
    LET omega == calculateOmega(mode, p) IN
    LET startN == FloorDiv(minTime * omega + p.phase * 1000, TwoPi) - 1
        endN   == CeilDiv(maxTime * omega + p.phase * 1000, TwoPi) + 1
    IN  KeyPointsLoop(startN, endN, NoKeyPoints, minTime, maxTime, type, mode,
                      omega, p.phase, getAmplitude(mode, p), simTime)

\* what updateChart leaves in one chart: the x axis and datasets 1..3
updateChart(type, mode, p, simTime) ==
    LET currentTime == simTime
        minTime == IF currentTime <= timeWindow THEN 0 ELSE currentTime - timeWindow
        maxTime == IF currentTime <= timeWindow THEN timeWindow ELSE currentTime
    IN  [xmin |-> minTime, xmax |-> maxTime,
         keyPoints |-> calculateKeyPoints(minTime, maxTime, type, mode, p, simTime)]

drawAllGraphs(mode, p, simTime) ==
    [type \in SignalTypes |-> updateChart(type, mode, p, simTime)]

\* resetCharts: every dataset emptied, x axis back to [0, timeWindow]
resetCharts ==
    [type \in SignalTypes |-> [xmin |-> 0, xmax |-> timeWindow, keyPoints |-> NoKeyPoints]]

(***************************************************************************)
(* Inputs.                                                                 *)
(***************************************************************************)
\* The text of a parameter field (e.target.value): a decimal number, a
\* number followed by other characters ("2.5kg"), or text with no leading
\* number (the empty text included).
Text(kind, num) == [kind |-> kind, num |-> num]

\* parseFloat: the leading decimal number of the text, NaN when there is none
parseFloat(text) ==
    IF text.kind \in {"number", "prefixed"} THEN text.num ELSE NaN
isNaN(v) == v = NaN

\* one accepted value per field that differs from the initial one
OtherValue == [mass |-> 2000, springConstant |-> 90000, amplitude |-> 300,
               pendulumLength |-> 1000, pendulumAngle |-> 5000,
               gravity |-> 1600, phase |-> 1571]

\* the texts typed into the field of parameter f
TextInputs(f) ==
    { Text("number", OtherValue[f]),
      Text("number", RangeMax[f]),
      Text("number", RangeMin[f] - 1),
      Text("number", RangeMax[f] + 1),
      Text("prefixed", OtherValue[f]),
      Text("text", 0) }

\* the values a slider of parameter f delivers (a range input delivers a
\* number between its min and max attributes)
SliderInputs(f) == { OtherValue[f], RangeMin[f] }

\* wall-clock time between two frames, in ms: shorter than, equal to and
\* longer than the clamp of animate
FrameSteps == {50, 110}
\* frame steps of the long runs of SpecLong
LongSteps == {125}

\* vertical mouse offsets from the equilibrium line during a spring drag (px)
SpringDragOffsets == {-400, 24}
\* polar angles of the mouse about the pivot during a pendulum drag (mrad)
PendulumDragAngles == {-1000, 87}

PIXELS_PER_METER == 320

(***************************************************************************)
(* The host: requestAnimationFrame / cancelAnimationFrame.                 *)
(* frames is the set of frame requests not yet delivered or cancelled.     *)
(* Handles are positive; a handle no longer referenced is reused.          *)
(***************************************************************************)
NoFrame == 0

requestAnimationFrame(pending) ==
    CHOOSE id \in 1..(Cardinality(pending) + 1) : id \notin pending

cancelAnimationFrame(pending, id) == pending \ {id}

(***************************************************************************)
(* State.                                                                  *)
(***************************************************************************)
AllValid(vs) == \A f \in Fields : vs[f]

\* Object.values(validationState).some(isValid => !isValid)
\* hasErrors looking only at the fields shown in the current mode
hasErrorsOfShownFields(vs) ==
    \E f \in Fields :
        /\ ~vs[f]
        /\ f \in (IF simulationMode = "spring"
                  THEN {"mass", "springConstant", "amplitude", "phase"}
                  ELSE {"pendulumLength", "pendulumAngle", "gravity", "phase"})

hasErrors(vs) == \E f \in Fields : ~vs[f]

NoText == Text("none", 0)

\* what the operation just performed was, its input, and what held when it
\* began
Op(name, field, text) ==
    [name |-> name, field |-> field, text |-> text,
     running |-> simulation.isRunning]

\* updateCurrentValues: the four values on display
\* the body is drawn where the simulation put it (drawSpring / drawPendulum
\* called by resetSimulation and animate), not where a drag left it
NoDrag == [set |-> FALSE, position |-> 0]

updateCurrentValues(position, velocity, acceleration, time) ==
    [position |-> position, velocity |-> velocity,
     acceleration |-> acceleration, time |-> time]

Init ==
    /\ simulationMode = "spring"
    /\ params = InitParams
    /\ simulation = [time |-> 0, isRunning |-> FALSE, animationId |-> NoFrame,
                     lastTimestamp |-> 0, timeScale |-> 1]
    /\ validationState = [f \in Fields |-> TRUE]
    /\ dragState = [isDragging |-> FALSE, wasRunning |-> FALSE]
    /\ graphData = EmptyGraphData
    /\ charts = resetCharts
    /\ current = updateCurrentValues(0, 0, 0, 0)
    /\ startBtn = [disabled |-> FALSE]
    /\ frames = {}
    /\ now = 0
    /\ inputCount = 0
    /\ appended = EmptyGraphData
    /\ dragged = NoDrag
    /\ lastOp = [name |-> "load", field |-> "none", text |-> NoText,
                 running |-> FALSE]

(***************************************************************************)
(* Parameter store.                                                        *)
(***************************************************************************)
updateStartButtonState(vs) == [disabled |-> hasErrors(vs)]

\* showError without its call of updateStartButtonState
showErrorNoRefresh(vs, btn, show, validationKey) ==
    [validationState |-> [vs EXCEPT ![validationKey] = ~show], startBtn |-> btn]

\* showError setting the flag of every field
showErrorAllFields(vs, btn, show, validationKey) ==
    LET vs2 == [f \in Fields |-> ~show]
    IN  [validationState |-> vs2, startBtn |-> updateStartButtonState(vs2)]

\* showError: sets the flag of validationKey and refreshes the start button
showError(vs, btn, show, validationKey) ==
    LET vs2 == [vs EXCEPT ![validationKey] = ~show]
    IN  [validationState |-> vs2, startBtn |-> updateStartButtonState(vs2)]

\* validateAndUpdate storing the number before the range check
validateAndUpdateCommitFirst(p, vs, btn, value, min, max, paramName, validationKey) ==
    LET numValue == parseFloat(value)
        rejected == showError(vs, btn, TRUE, validationKey)
        accepted == showError(vs, btn, FALSE, validationKey)
    IN  IF isNaN(numValue)
        THEN [params |-> p, validationState |-> rejected.validationState,
              startBtn |-> rejected.startBtn, result |-> FALSE]
        ELSE IF numValue < min \/ numValue > max
        THEN [params |-> [p EXCEPT ![paramName] = numValue],
              validationState |-> rejected.validationState,
              startBtn |-> rejected.startBtn, result |-> FALSE]
        ELSE [params |-> [p EXCEPT ![paramName] = numValue],
              validationState |-> accepted.validationState,
              startBtn |-> accepted.startBtn, result |-> TRUE]

\* validateAndUpdate: the new params, flags and button, and the return value
validateAndUpdate(p, vs, btn, value, min, max, paramName, validationKey) ==
    LET numValue == parseFloat(value)
        rejected == showError(vs, btn, TRUE, validationKey)
        accepted == showError(vs, btn, FALSE, validationKey)
    IN  IF isNaN(numValue)
        THEN [params |-> p, validationState |-> rejected.validationState,
              startBtn |-> rejected.startBtn, result |-> FALSE]
        ELSE IF numValue < min \/ numValue > max
        THEN [params |-> p, validationState |-> rejected.validationState,
              startBtn |-> rejected.startBtn, result |-> FALSE]
        ELSE [params |-> [p EXCEPT ![paramName] = numValue],
              validationState |-> accepted.validationState,
              startBtn |-> accepted.startBtn, result |-> TRUE]

\* the 'input' listener of the phase text field
phaseValueInput(p, vs, btn, text) ==
    LET value   == parseFloat(text)
        isValid == ~isNaN(value) /\ value >= 0 /\ value <= 6280
        shown   == showError(vs, btn, ~isValid, "phase")
    IN  [params |-> IF isValid THEN [p EXCEPT !.phase = value] ELSE p,
         validationState |-> shown.validationState,
         startBtn |-> shown.startBtn]

\* the 'input' listener of a slider
sliderInput(p, vs, btn, f, text) ==
    LET shown == showError(vs, btn, FALSE, f)
    IN  [params |-> [p EXCEPT ![f] = parseFloat(text)],
         validationState |-> shown.validationState,
         startBtn |-> shown.startBtn]

\* a text typed into the field of parameter f
TextInput(f, text) ==
    /\ inputCount < MaxInputs
    /\ \E r \in { IF f = "phase"
                   THEN phaseValueInput(params, validationState, startBtn, text)
                   ELSE validateAndUpdate(params, validationState, startBtn, text,
                                          RangeMin[f], RangeMax[f], f, f) } :
           /\ params' = r.params
           /\ validationState' = r.validationState
           /\ startBtn' = r.startBtn
    /\ inputCount' = inputCount + 1
    /\ lastOp' = Op("text", f, text)
    /\ UNCHANGED <<simulationMode, simulation, dragState, graphData, charts,
                   current, frames, now, appended, dragged>>

\* the slider of parameter f moved to value v
SliderInput(f, v) ==
    /\ inputCount < MaxInputs
    /\ \E r \in { sliderInput(params, validationState, startBtn, f, Text("number", v)) } :
           /\ params' = r.params
           /\ validationState' = r.validationState
           /\ startBtn' = r.startBtn
    /\ inputCount' = inputCount + 1
    /\ lastOp' = Op("slider", f, Text("number", v))
    /\ UNCHANGED <<simulationMode, simulation, dragState, graphData, charts,
                   current, frames, now, appended, dragged>>

(***************************************************************************)
(* Simulation control.                                                     *)
(***************************************************************************)
\* startSimulation without the check of the validation flags
startSimulationUnchecked(sim, pending, vs) ==
    IF ~sim.isRunning
    THEN LET id == requestAnimationFrame(pending)
         IN  [simulation |-> [sim EXCEPT !.isRunning = TRUE,
                                         !.lastTimestamp = 0,
                                         !.animationId = id],
              frames |-> pending \cup {id}]
    ELSE [simulation |-> sim, frames |-> pending]

\* startSimulation that leaves lastTimestamp as the last frame set it
startSimulationKeepTimestamp(sim, pending, vs) ==
    IF hasErrors(vs)
    THEN [simulation |-> sim, frames |-> pending]
    ELSE IF ~sim.isRunning
    THEN LET id == requestAnimationFrame(pending)
         IN  [simulation |-> [sim EXCEPT !.isRunning = TRUE,
                                         !.animationId = id],
              frames |-> pending \cup {id}]
    ELSE [simulation |-> sim, frames |-> pending]

\* startSimulation without the test of simulation.isRunning
startSimulationAlways(sim, pending, vs) ==
    IF hasErrors(vs)
    THEN [simulation |-> sim, frames |-> pending]
    ELSE LET id == requestAnimationFrame(pending)
         IN  [simulation |-> [sim EXCEPT !.isRunning = TRUE,
                                         !.lastTimestamp = 0,
                                         !.animationId = id],
              frames |-> pending \cup {id}]

\* startSimulation: the new simulation record and frame queue
startSimulation(sim, pending, vs) ==
    IF hasErrors(vs)
    THEN [simulation |-> sim, frames |-> pending]
    ELSE IF ~sim.isRunning
    THEN LET id == requestAnimationFrame(pending)
         IN  [simulation |-> [sim EXCEPT !.isRunning = TRUE,
                                         !.lastTimestamp = 0,
                                         !.animationId = id],
              frames |-> pending \cup {id}]
    ELSE [simulation |-> sim, frames |-> pending]

\* pauseSimulation that clears the flag and leaves the frame request alone
pauseSimulationNoCancel(sim, pending) ==
    [simulation |-> [sim EXCEPT !.isRunning = FALSE], frames |-> pending]

pauseSimulation(sim, pending) ==
    IF sim.animationId # NoFrame
    THEN [simulation |-> [sim EXCEPT !.isRunning = FALSE, !.animationId = NoFrame],
          frames |-> cancelAnimationFrame(pending, sim.animationId)]
    ELSE [simulation |-> [sim EXCEPT !.isRunning = FALSE], frames |-> pending]

\* resetSimulation without its call of pauseSimulation
resetSimulationNoPause(sim, pending) ==
    [simulation |-> [sim EXCEPT !.time = 0, !.lastTimestamp = 0],
     frames |-> pending,
     graphData |-> EmptyGraphData,
     charts |-> resetCharts,
     current |-> updateCurrentValues(0, 0, 0, 0)]

\* resetSimulation: simulation, frame queue, series, charts and display
resetSimulation(sim, pending) ==
    LET paused == pauseSimulation(sim, pending)
    IN  [simulation |-> [paused.simulation EXCEPT !.time = 0, !.lastTimestamp = 0],
         frames |-> paused.frames,
         graphData |-> EmptyGraphData,
         charts |-> resetCharts,
         current |-> updateCurrentValues(0, 0, 0, 0)]

StartSimulation ==
    /\ \E r \in { startSimulation(simulation, frames, validationState) } :
           /\ simulation' = r.simulation
           /\ frames' = r.frames
    /\ lastOp' = Op("start", "none", NoText)
    /\ UNCHANGED <<simulationMode, params, validationState, dragState, graphData,
                   charts, current, startBtn, now, inputCount, appended, dragged>>

PauseSimulation ==
    /\ \E r \in { pauseSimulation(simulation, frames) } :
           /\ simulation' = r.simulation
           /\ frames' = r.frames
    /\ lastOp' = Op("pause", "none", NoText)
    /\ UNCHANGED <<simulationMode, params, validationState, dragState, graphData,
                   charts, current, startBtn, now, inputCount, appended, dragged>>

ResetSimulation ==
    /\ \E r \in { resetSimulation(simulation, frames) } :
           /\ simulation' = r.simulation
           /\ frames' = r.frames
           /\ graphData' = r.graphData
           /\ charts' = r.charts
           /\ current' = r.current
    /\ appended' = EmptyGraphData
    /\ dragged' = NoDrag
    /\ lastOp' = Op("reset", "none", NoText)
    /\ UNCHANGED <<simulationMode, params, validationState, dragState, startBtn,
                   now, inputCount>>

\* switchMode without its call of resetSimulation
switchModeNoReset(mode, sim, pending) ==
    [simulationMode |-> mode,
     reset |-> [simulation |-> sim, frames |-> pending, graphData |-> graphData,
                charts |-> charts, current |-> current]]

\* switchMode: the mode, then resetSimulation
switchMode(mode, sim, pending) ==
    [simulationMode |-> mode, reset |-> resetSimulation(sim, pending)]

SwitchMode(mode) ==
    /\ \E r \in { switchMode(mode, simulation, frames) } :
           /\ simulationMode' = r.simulationMode
           /\ simulation' = r.reset.simulation
           /\ frames' = r.reset.frames
           /\ graphData' = r.reset.graphData
           /\ charts' = r.reset.charts
           /\ current' = r.reset.current
    /\ appended' = EmptyGraphData
    /\ dragged' = NoDrag
    /\ lastOp' = Op("mode", mode, NoText)
    /\ UNCHANGED <<params, validationState, dragState, startBtn, now, inputCount>>

(***************************************************************************)
(* The frame callback.                                                     *)
(***************************************************************************)
\* animate assigning the step to simulation.time instead of adding it
animateAssignTime(timestamp, mode, p, sim, pending, g, ch, cur) ==
    IF ~sim.isRunning
    THEN [simulation |-> sim, frames |-> pending, graphData |-> g,
          charts |-> ch, current |-> cur]
    ELSE LET last         == IF sim.lastTimestamp = 0 THEN timestamp
                             ELSE sim.lastTimestamp
             deltaTime    == timestamp - last
             clampedDelta == Min(deltaTime, MaxDelta)
             time         == clampedDelta * sim.timeScale
             position     == calculatePosition(mode, p, time)
             velocity     == calculateVelocity(mode, p, time)
             acceleration == calculateAcceleration(mode, p, time)
             id           == requestAnimationFrame(pending)
         IN  [simulation |-> [sim EXCEPT !.lastTimestamp = timestamp,
                                         !.time = time,
                                         !.animationId = id],
              frames     |-> pending \cup {id},
              graphData  |-> addDataPoint(g, mode, time, position, velocity, acceleration),
              charts     |-> drawAllGraphs(mode, p, time),
              current    |-> updateCurrentValues(position, velocity, acceleration, time)]

\* animate without the clamp of deltaTime
animateUnclamped(timestamp, mode, p, sim, pending, g, ch, cur) ==
    IF ~sim.isRunning
    THEN [simulation |-> sim, frames |-> pending, graphData |-> g,
          charts |-> ch, current |-> cur]
    ELSE LET last         == IF sim.lastTimestamp = 0 THEN timestamp
                             ELSE sim.lastTimestamp
             deltaTime    == timestamp - last
             clampedDelta == deltaTime
             time         == sim.time + clampedDelta * sim.timeScale
             position     == calculatePosition(mode, p, time)
             velocity     == calculateVelocity(mode, p, time)
             acceleration == calculateAcceleration(mode, p, time)
             id           == requestAnimationFrame(pending)
         IN  [simulation |-> [sim EXCEPT !.lastTimestamp = timestamp,
                                         !.time = time,
                                         !.animationId = id],
              frames     |-> pending \cup {id},
              graphData  |-> addDataPoint(g, mode, time, position, velocity, acceleration),
              charts     |-> drawAllGraphs(mode, p, time),
              current    |-> updateCurrentValues(position, velocity, acceleration, time)]

\* animate without the test of simulation.isRunning
animateUnguarded(timestamp, mode, p, sim, pending, g, ch, cur) ==
    LET last         == IF sim.lastTimestamp = 0 THEN timestamp
                        ELSE sim.lastTimestamp
        deltaTime    == timestamp - last
        clampedDelta == Min(deltaTime, MaxDelta)
        time         == sim.time + clampedDelta * sim.timeScale
        position     == calculatePosition(mode, p, time)
        velocity     == calculateVelocity(mode, p, time)
        acceleration == calculateAcceleration(mode, p, time)
        id           == requestAnimationFrame(pending)
    IN  [simulation |-> [sim EXCEPT !.lastTimestamp = timestamp,
                                    !.time = time,
                                    !.animationId = id],
         frames     |-> pending \cup {id},
         graphData  |-> addDataPoint(g, mode, time, position, velocity, acceleration),
         charts     |-> drawAllGraphs(mode, p, time),
         current    |-> updateCurrentValues(position, velocity, acceleration, time)]

\* animate returning also when a field is flagged invalid
animateOnlyWhenValid(timestamp, mode, p, sim, pending, g, ch, cur) ==
    IF ~sim.isRunning \/ hasErrors(validationState)
    THEN [simulation |-> sim, frames |-> pending, graphData |-> g,
          charts |-> ch, current |-> cur]
    ELSE animateUnguarded(timestamp, mode, p, sim, pending, g, ch, cur)

\* animate(timestamp), run with the frame queue left after the delivery
animate(timestamp, mode, p, sim, pending, g, ch, cur) ==
    IF ~sim.isRunning
    THEN [simulation |-> sim, frames |-> pending, graphData |-> g,
          charts |-> ch, current |-> cur]
    ELSE LET last         == IF sim.lastTimestamp = 0 THEN timestamp
                             ELSE sim.lastTimestamp
             deltaTime    == timestamp - last
             clampedDelta == Min(deltaTime, MaxDelta)
             time         == sim.time + clampedDelta * sim.timeScale
             position     == calculatePosition(mode, p, time)
             velocity     == calculateVelocity(mode, p, time)
             acceleration == calculateAcceleration(mode, p, time)
             id           == requestAnimationFrame(pending)
         IN  [simulation |-> [sim EXCEPT !.lastTimestamp = timestamp,
                                         !.time = time,
                                         !.animationId = id],
              frames     |-> pending \cup {id},
              graphData  |-> addDataPoint(g, mode, time, position, velocity, acceleration),
              charts     |-> drawAllGraphs(mode, p, time),
              current    |-> updateCurrentValues(position, velocity, acceleration, time)]

Last(seq) == seq[Len(seq)]

\* the history of pushes: the sample addDataPoint has just pushed on each
\* series of g, added to the history h
Pushed(h, g) ==
    [position     |-> Append(h.position, Last(g.position)),
     velocity     |-> Append(h.velocity, Last(g.velocity)),
     acceleration |-> Append(h.acceleration, Last(g.acceleration))]

\* the host delivers a pending frame, step ms after the previous instant
Tick(step, horizon) ==
    /\ now + step <= horizon
    /\ \E id \in frames :
         \E r \in { animate(now + step, simulationMode, params, simulation,
                            frames \ {id}, graphData, charts, current) } :
             /\ simulation' = r.simulation
             /\ frames' = r.frames
             /\ graphData' = r.graphData
             /\ charts' = r.charts
             /\ current' = r.current
             /\ appended' = IF r.graphData # graphData
                            THEN Pushed(appended, r.graphData)
                            ELSE appended
    /\ dragged' = IF simulation.isRunning THEN NoDrag ELSE dragged
    /\ now' = now + step
    /\ lastOp' = Op("frame", "none", NoText)
    /\ UNCHANGED <<simulationMode, params, validationState, dragState, startBtn,
                   inputCount>>

(***************************************************************************)
(* Drag.                                                                   *)
(***************************************************************************)
RECURSIVE AcosBetween(_, _, _)
\* the largest angle a in lo..hi milliradians with Cos(a) >= r
AcosBetween(r, lo, hi) ==
    IF lo >= hi THEN lo
    ELSE LET mid == (lo + hi + 1) \div 2
         IN  IF Cos(mid * 1000) >= r THEN AcosBetween(r, mid, hi)
                                     ELSE AcosBetween(r, lo, mid - 1)

\* Math.acos of a ratio in thousandths, in microradians
Acos(r) == AcosBetween(r, 0, Pi \div 1000) * 1000

RECURSIVE AddPeriodsWhileNotPositive(_, _)
\* the loop with the test internalTime <= 0
AddPeriodsWhileNotPositive(internalTime, period) ==
    IF internalTime <= 0
    THEN AddPeriodsWhileNotPositive(internalTime + period, period)
    ELSE internalTime

RECURSIVE AddPeriodsWhileNegative(_, _)
\* while (internalTime < 0) internalTime += calculatePeriod()
AddPeriodsWhileNegative(internalTime, period) ==
    IF internalTime < 0
    THEN AddPeriodsWhileNegative(internalTime + period, period)
    ELSE internalTime

\* (Math.acos(ratio) - params.phase) / omega, before the loop: the rational
\* num / den milliseconds with den = omega, as a key-point time (ratio in
\* thousandths)
RawInternalTime(ratio, mode, p) ==
    [num |-> Acos(ratio) - p.phase * 1000, den |-> calculateOmega(mode, p)]

\* the time solved backward from a dragged position, after the loop; over
\* the denominator omega the period 2*Pi/omega is TwoPi
InternalTime(ratio, mode, p) ==
    LET raw == RawInternalTime(ratio, mode, p)
    IN  [num |-> AddPeriodsWhileNegative(raw.num, TwoPi), den |-> raw.den]

\* calculateVelocity and calculateAcceleration at a time num / den ms with
\* den = omega: omega * t + params.phase is num + params.phase
velocityAt(mode, p, t) ==
    ((((-getAmplitude(mode, p)) * calculateOmega(mode, p)) \div 1000)
        * Sin(t.num + p.phase * 1000)) \div 1000

accelerationAt(mode, p, t) ==
    ((((((-getAmplitude(mode, p)) * calculateOmega(mode, p)) \div 1000)
        * calculateOmega(mode, p)) \div 1000)
        * Cos(t.num + p.phase * 1000)) \div 1000

\* the position a drag puts the body at: metres (spring; offset = mouseY -
\* equilibriumY in pixels) or radians (pendulum; the mouse's polar angle
\* Math.atan2(dx, dy) in milliradians), in thousandths
DragPosition(input, mode, p) ==
    IF mode = "spring"
    THEN LET maxDisplacementPixels == p.amplitude * PIXELS_PER_METER
             newDisplacement == Max(-maxDisplacementPixels,
                                    Min(maxDisplacementPixels, input * 1000))
         IN  newDisplacement \div PIXELS_PER_METER
    ELSE LET maxAngle == (p.pendulumAngle * (Pi \div 1000)) \div 180000
         IN  Max(-maxAngle, Min(maxAngle, input))

\* Math.max(-1, Math.min(1, newPosition / A)) in thousandths
DragRatio(input, mode, p) ==
    LET A == IF mode = "spring" THEN p.amplitude
             ELSE (p.pendulumAngle * (Pi \div 1000)) \div 180000
    IN  Max(-1000, Min(1000, (DragPosition(input, mode, p) * 1000) \div A))

\* handleSpringDrag; offset = mouseY - equilibriumY in pixels
handleSpringDrag(offset, mode, p) ==
    LET newPosition  == DragPosition(offset, mode, p)
        ratio        == DragRatio(offset, mode, p)
        internalTime == InternalTime(ratio, mode, p)
    IN  updateCurrentValues(newPosition,
                            velocityAt(mode, p, internalTime),
                            accelerationAt(mode, p, internalTime), 0)

\* handlePendulumDrag; angle = Math.atan2(dx, dy) in milliradians
handlePendulumDrag(angle, mode, p) ==
    LET newAngle     == DragPosition(angle, mode, p)
        ratio        == DragRatio(angle, mode, p)
        internalTime == InternalTime(ratio, mode, p)
    IN  updateCurrentValues(newAngle,
                            velocityAt(mode, p, internalTime),
                            accelerationAt(mode, p, internalTime), 0)

\* handleCanvasMouseDown; overMass is the result of isMouseOverMass
MouseDown(overMass) ==
    /\ IF overMass
       THEN \E paused \in { IF simulation.isRunning
                              THEN pauseSimulation(simulation, frames)
                              ELSE [simulation |-> simulation, frames |-> frames] } :
                /\ dragState' = [isDragging |-> TRUE,
                                 wasRunning |-> simulation.isRunning]
                /\ simulation' = [paused.simulation EXCEPT !.time = 0]
                /\ frames' = paused.frames
                /\ graphData' = EmptyGraphData
                /\ charts' = resetCharts
                /\ appended' = EmptyGraphData
       ELSE UNCHANGED <<dragState, simulation, frames, graphData, charts, appended>>
    /\ lastOp' = Op(IF overMass THEN "mousedown" ELSE "mousedown-miss", "none", NoText)
    /\ UNCHANGED <<simulationMode, params, validationState, current, startBtn,
                   now, inputCount, dragged>>

\* handleCanvasMouseMove; i is the mouse position, recorded with the operation
MouseMove(i) ==
    /\ dragState.isDragging
    /\ current' = IF simulationMode = "spring"
                  THEN handleSpringDrag(i, simulationMode, params)
                  ELSE handlePendulumDrag(i, simulationMode, params)
    /\ simulation' = [simulation EXCEPT !.time = 0]
    /\ dragged' = [set |-> TRUE, position |-> current'.position]
    /\ lastOp' = Op("mousemove", "none", Text("mouse", i))
    /\ UNCHANGED <<simulationMode, params, validationState, dragState, graphData,
                   charts, startBtn, frames, now, inputCount, appended>>

\* handleCanvasMouseUp that restarts the simulation the drag had paused
handleCanvasMouseUpResume(ds, sim, pending, vs) ==
    IF ds.isDragging
    THEN LET resumed == IF ds.wasRunning THEN startSimulation(sim, pending, vs)
                        ELSE [simulation |-> sim, frames |-> pending]
         IN  [dragState |-> [ds EXCEPT !.isDragging = FALSE],
              simulation |-> resumed.simulation, frames |-> resumed.frames]
    ELSE [dragState |-> ds, simulation |-> sim, frames |-> pending]

\* handleCanvasMouseUp: the drag ends, and nothing is started
handleCanvasMouseUp(ds, sim, pending, vs) ==
    IF ds.isDragging
    THEN [dragState |-> [ds EXCEPT !.isDragging = FALSE],
          simulation |-> sim, frames |-> pending]
    ELSE [dragState |-> ds, simulation |-> sim, frames |-> pending]

\* the listeners of mouseup and mouseleave; the operation is recorded with
\* "drag" when it ended a drag
MouseUp ==
    /\ \E r \in { handleCanvasMouseUp(dragState, simulation, frames, validationState) } :
           /\ dragState' = r.dragState
           /\ simulation' = r.simulation
           /\ frames' = r.frames
    /\ lastOp' = Op("mouseup", IF dragState.isDragging THEN "drag" ELSE "none", NoText)
    /\ UNCHANGED <<simulationMode, params, validationState, graphData, charts,
                   current, startBtn, now, inputCount, appended, dragged>>

(***************************************************************************)
(* Specifications.                                                         *)
(*                                                                         *)
(* Spec      every operation, a short wall-clock horizon, and parameter    *)
(*           inputs on one field.                                          *)
(* SpecParams  the parameter store: every field with every kind of input,  *)
(*           with start, pause, reset and mode switch, and no frame.       *)
(* SpecLong  long runs of frames past the time window: user operations in  *)
(*           the first frames, then frames only, and in the last frames    *)
(*           the mouse moves of a drag that is still in progress.          *)
(* SpecDrag  the drag of the body in both modes under changing parameters,   *)
(*           with no frame.                                                *)
(* SpecInputs  parameter inputs on every field before and during a run.     *)
(* SpecChart  the charts of a long run: parameters and mode are set, then  *)
(*           the simulation is started and runs past the time window.      *)
(***************************************************************************)
\* the parameter inputs of Spec
ControlFields == {"mass"}
ControlTexts(f) == { Text("number", OtherValue[f]), Text("text", 0) }

DragInputs == IF simulationMode = "spring" THEN SpringDragOffsets
                                           ELSE PendulumDragAngles

Control ==
    \/ StartSimulation
    \/ PauseSimulation
    \/ ResetSimulation
    \/ \E mode \in Modes : SwitchMode(mode)

Drag ==
    \/ \E overMass \in BOOLEAN : MouseDown(overMass)
    \/ \E i \in DragInputs : MouseMove(i)
    \/ MouseUp

Next ==
    \/ Control
    \/ Drag
    \/ \E step \in FrameSteps : Tick(step, MaxNow)
    \/ \E f \in ControlFields : \E text \in ControlTexts(f) : TextInput(f, text)
    \/ \E f \in ControlFields : SliderInput(f, OtherValue[f])

Spec == Init /\ [][Next]_vars

NextParams ==
    \/ Control
    \/ \E f \in Fields : \E text \in TextInputs(f) : TextInput(f, text)
    \/ \E f \in Fields : \E v \in SliderInputs(f) : SliderInput(f, v)

SpecParams == Init /\ [][NextParams]_vars

NextLong ==
    \/ now <= OpsUntil /\ Control
    \/ now <= OpsUntil /\ Drag
    \/ now >= MovesFrom /\ \E i \in DragInputs : MouseMove(i)
    \/ \E step \in LongSteps : Tick(step, MaxNowLong)

SpecLong == Init /\ [][NextLong]_vars

\* the parameters set before the run of SpecChart
ChartFields == {"mass", "gravity", "phase"}

\* the values typed into the field of parameter f before the run
ChartValues(f) == IF f = "phase" THEN { OtherValue[f], RangeMax[f] }
                  ELSE { OtherValue[f] }

NextChart ==
    \/ now = 0 /\ \E f \in ChartFields : \E v \in ChartValues(f) :
                     TextInput(f, Text("number", v))
    \/ now = 0 /\ \E mode \in Modes : SwitchMode(mode)
    \/ StartSimulation
    \/ \E step \in LongSteps : Tick(step, MaxNowLong)

SpecChart == Init /\ [][NextChart]_vars

\* the parameters set before and during the drags of SpecDrag
DragFields == {"phase", "mass", "amplitude", "pendulumAngle", "gravity"}

NextDrag ==
    \/ Drag
    \/ \E mode \in Modes : SwitchMode(mode)
    \/ \E f \in DragFields : \E text \in TextInputs(f) : TextInput(f, text)

SpecDrag == Init /\ [][NextDrag]_vars

\* the texts typed into the field of parameter f in SpecInputs: an accepted
\* number, a number above the range, and text that is not a number
RunTexts(f) ==
    { Text("number", OtherValue[f]),
      Text("number", RangeMax[f] + 1),
      Text("text", 0) }

NextInputs ==
    \/ StartSimulation
    \/ \E step \in FrameSteps : Tick(step, MaxNow)
    \/ \E f \in Fields : \E text \in RunTexts(f) : TextInput(f, text)
    \/ \E f \in Fields : SliderInput(f, OtherValue[f])

SpecInputs == Init /\ [][NextInputs]_vars

\* the fields typed into in SpecValidity: one shown in each mode
ValidityFields == {"mass", "pendulumLength"}

NextValidity ==
    \/ Control
    \/ Drag
    \/ \E f \in ValidityFields : \E text \in RunTexts(f) : TextInput(f, text)
    \/ \E f \in ValidityFields : SliderInput(f, OtherValue[f])

SpecValidity == Init /\ [][NextValidity]_vars

(***************************************************************************)
(* Properties.                                                             *)
(***************************************************************************)
Series == {"position", "velocity", "acceleration"}

SeriesEmpty == \A k \in Series : graphData[k] = <<>>

\* C1: invoking start while at least one field is flagged invalid changes
\* nothing: the simulation record (running flag, elapsed time, lastTimestamp,
\* frame handle), the pending frame requests and the three series stay as
\* they were, so a simulation that was not running stays not running.
C1_StartInvalidNoOp ==
    [][(lastOp'.name = "start" /\ hasErrors(validationState))
        => /\ simulation' = simulation
           /\ frames' = frames
           /\ graphData' = graphData]_vars

\* start has been invoked with a field flagged invalid on a paused
\* simulation that has elapsed time and samples
C1_Witness ==
    /\ lastOp.name = "start"
    /\ hasErrors(validationState)
    /\ ~simulation.isRunning
    /\ simulation.time > 0
    /\ Len(graphData.position) > 0

\* C2: right after reset the simulation is not running, no frame request is
\* pending, elapsed time and lastTimestamp are 0 and the three series are
\* empty, whatever the state before.
C2_ResetToIdle ==
    lastOp.name = "reset"
        => /\ ~simulation.isRunning
           /\ simulation.animationId = NoFrame
           /\ frames = {}
           /\ simulation.time = 0
           /\ simulation.lastTimestamp = 0
           /\ SeriesEmpty

\* reset has acted on a running simulation during a drag
C2_Witness ==
    /\ lastOp.name = "reset"
    /\ lastOp.running
    /\ dragState.isDragging

\* C3: pause in the Running state clears the running flag and cancels the
\* pending frame request, and leaves the elapsed time, the three series, the
\* parameters and the mode as they were.
C3_PauseKeepsClock ==
    [][(lastOp'.name = "pause" /\ simulation.isRunning)
        => /\ ~simulation'.isRunning
           /\ simulation'.animationId = NoFrame
           /\ frames' = {}
           /\ simulation'.time = simulation.time
           /\ graphData' = graphData
           /\ params' = params
           /\ simulationMode' = simulationMode]_vars

\* pause has acted on a running simulation with elapsed time and samples
C3_Witness ==
    /\ lastOp.name = "pause"
    /\ lastOp.running
    /\ simulation.time > 0
    /\ Len(graphData.position) > 0

\* C4: right after a mode switch the mode is the requested one, the
\* simulation is not running, the elapsed time is 0 and the three series
\* are empty.
C4_SwitchModeResets ==
    lastOp.name = "mode"
        => /\ simulationMode = lastOp.field
           /\ ~simulation.isRunning
           /\ simulation.time = 0
           /\ SeriesEmpty

\* the mode has been switched to pendulum while the simulation was running
C4_Witness ==
    /\ lastOp.name = "mode"
    /\ lastOp.running
    /\ simulationMode = "pendulum"

KeyPointLists == {"maximos", "minimos", "ceros"}

\* C5: right after a frame of the running simulation no key point of any
\* chart has a time greater than the elapsed time.
C5_KeyPointsOccurred ==
    (lastOp.name = "frame" /\ lastOp.running)
        => \A type \in SignalTypes : \A l \in KeyPointLists :
             \A i \in 1..Len(charts[type].keyPoints[l]) :
                KeyTimeLeq(charts[type].keyPoints[l][i].x, simulation.time)

\* a frame has drawn key points while the window extends beyond the elapsed
\* time, in pendulum mode with a phase other than the initial one
C5_Witness ==
    /\ lastOp.name = "frame"
    /\ lastOp.running
    /\ simulationMode = "pendulum"
    /\ params.phase # InitParams.phase
    /\ simulation.time > 0
    /\ charts.position.xmax > simulation.time
    /\ \A type \in SignalTypes : \A l \in KeyPointLists :
          Len(charts[type].keyPoints[l]) > 0

\* C6: in every reachable state every sample of the three series has
\* time >= elapsed time - timeWindow - margin.
C6_SamplesWithinWindow ==
    \A k \in Series : \A i \in 1..Len(graphData[k]) :
        graphData[k][i].x >= simulation.time - timeWindow - margin

\* C7: right after an append at time T, every sample appended since the
\* series were last emptied whose time is >= T - timeWindow - margin is
\* still in its series.
C7_NoOverEviction ==
    (lastOp.name = "frame" /\ lastOp.running)
        => \A k \in Series : \A i \in 1..Len(appended[k]) :
             appended[k][i].x >= simulation.time - timeWindow - margin
                => \E j \in 1..Len(graphData[k]) : graphData[k][j] = appended[k][i]

\* C8: a drag in progress and a running simulation never hold together.
C8_DragExcludesRunning == ~(dragState.isDragging /\ simulation.isRunning)

\* the text is one the listener of field f rejects: no leading number, or a
\* number outside the range of the field
Rejected(f, text) ==
    \/ isNaN(parseFloat(text))
    \/ parseFloat(text) < RangeMin[f]
    \/ parseFloat(text) > RangeMax[f]

C10_StartEnabledIffAllValid == (~startBtn.disabled) <=> AllValid(validationState)

\* the button is disabled by one invalid field after another field took a
\* new value
C10_Witness ==
    /\ startBtn.disabled
    /\ \E f \in Fields : \E g \in Fields \ {f} :
          /\ ~validationState[f]
          /\ validationState[g]
          /\ params[g] # InitParams[g]

\* C11: a frame tick never decreases the elapsed time, and the elapsed time
\* decreases (returns to 0) only through reset or mode switch.
C11_TimeDecreasesOnlyByReset ==
    [][simulation'.time < simulation.time
        => lastOp'.name \in {"reset", "mode"}]_vars

\* C11 as amended: a frame tick never decreases the elapsed time; the elapsed
\* time decreases only through reset, mode switch or a drag event (the mouse
\* pressed on the body, or a mouse move of the drag), and then it becomes 0.
C11_TimeMonotonic ==
    [][simulation'.time < simulation.time
        => /\ lastOp'.name \in {"reset", "mode", "mousedown", "mousemove"}
           /\ simulation'.time = 0]_vars

\* a frame of the running simulation has advanced the elapsed time beyond
\* that of an earlier frame
C11_Witness ==
    /\ lastOp.name = "frame"
    /\ lastOp.running
    /\ Len(graphData.position) >= 2
    /\ simulation.time > graphData.position[1].x
    /\ simulation.time = Last(graphData.position).x

\* C12: in every reachable state each of the three series is ordered by
\* time ascending: no sample has a smaller time than the one before it.
C12_SeriesSorted ==
    \A k \in Series : \A i \in 1..(Len(graphData[k]) - 1) :
        graphData[k][i].x <= graphData[k][i + 1].x

\* every parameter holds a value inside the range of its field
ParamsInRange ==
    \A f \in Fields : params[f] >= RangeMin[f] /\ params[f] <= RangeMax[f]

\* C13: every parameter holds a value inside its accepted range in every
\* reachable state, and every write of a parameter goes through the
\* validating setter: a step that changes a parameter is a step of a
\* text-field listener (validateAndUpdate or the phase check), never a step
\* that stores the input without the range check.
C13_ParamsWrittenByValidatingSetter ==
    [][/\ ParamsInRange'
       /\ (params' # params => lastOp'.name = "text")]_vars

\* C14: while the simulation is not running no frame callback has an
\* effect: no frame request is pending (pause and reset have cancelled it),
\* and animate called with any later timestamp leaves the elapsed time,
\* lastTimestamp, the series and the charts as they are and requests no
\* frame.
C14_NoFrameEffectWhileStopped ==
    ~simulation.isRunning
        => /\ frames = {}
           /\ \A step \in FrameSteps \cup LongSteps :
                 animate(now + step, simulationMode, params, simulation, frames,
                         graphData, charts, current)
                   = [simulation |-> simulation, frames |-> frames,
                      graphData |-> graphData, charts |-> charts,
                      current |-> current]

\* a running simulation with elapsed time and a pending frame request has
\* been paused
C14_Witness ==
    /\ lastOp.name = "pause"
    /\ lastOp.running
    /\ ~simulation.isRunning
    /\ simulation.time > 0
    /\ simulation.lastTimestamp > 0

\* the y value addDataPoint stores in the position series for a position
positionForGraph(mode, position) ==
    IF mode = "pendulum" THEN (position * 180000) \div (Pi \div 1000)
    ELSE position

\* C15: when the body has been dragged to a displacement x within [-A, A]
\* and released, and the simulation is then started, the first sample the
\* new run appends has position x.
C15_RunStartsFromDraggedPosition ==
    [][(/\ lastOp'.name = "frame"
        /\ lastOp.name = "start"
        /\ ~lastOp.running
        /\ simulation.isRunning
        /\ ~dragState.isDragging
        /\ dragged.set)
        => Last(graphData'.position).y
             = positionForGraph(simulationMode, dragged.position)]_vars

\* C16: releasing a drag (mouseup or mouseleave) never resumes the
\* simulation: the release leaves the running flag, the clock and the frame
\* requests as they are, so a simulation the drag had paused is not running
\* after the release although wasRunning is recorded; and a simulation that
\* is not running becomes running only by an explicit start.
C16_ReleaseNeverResumes ==
    [][/\ (lastOp'.name = "mouseup"
            => /\ simulation' = simulation
               /\ frames' = frames)
       /\ ((~simulation.isRunning /\ simulation'.isRunning)
            => lastOp'.name = "start")]_vars

\* a drag begun on a running simulation has been released, and the
\* simulation is not running
C16_Witness ==
    /\ lastOp.name = "mouseup"
    /\ lastOp.field = "drag"
    /\ dragState.wasRunning
    /\ ~dragState.isDragging
    /\ ~simulation.isRunning
    /\ AllValid(validationState)

Abs(a) == IF a >= 0 THEN a ELSE -a

\* -omega^2 * position in the unit of the acceleration
MinusOmegaSquaredTimes(omega, position) ==
    -(((omega * position) \div 1000) * omega) \div 1000

\* the resolution of the fixed-point numbers: what the roundings of position
\* and acceleration to thousandths can separate the two sides by
Resolution(omega) == (omega * omega) \div 1000000 + (2 * omega) \div 1000 + 4

\* C17: the acceleration a frame computes equals -omega^2 times the position
\* it computes, in both modes and for every parameter setting and time; in
\* spring mode the same holds of the position and acceleration samples the
\* frame appends to the series.
C17_AccelerationIsMinusOmegaSquaredPosition ==
    (lastOp.name = "frame" /\ lastOp.running)
        => LET omega == calculateOmega(simulationMode, params)
           IN  /\ Abs(current.acceleration
                        - MinusOmegaSquaredTimes(omega, current.position))
                     <= Resolution(omega)
               /\ simulationMode = "spring"
                     => /\ Last(graphData.acceleration).x = Last(graphData.position).x
                        /\ Abs(Last(graphData.acceleration).y
                                 - MinusOmegaSquaredTimes(omega, Last(graphData.position).y))
                              <= Resolution(omega)

\* a frame has appended a triple with a position well away from 0, with a
\* mass and a phase other than the initial ones
C17_Witness ==
    /\ lastOp.name = "frame"
    /\ lastOp.running
    /\ simulationMode = "spring"
    /\ params.mass # InitParams.mass
    /\ params.phase # InitParams.phase
    /\ simulation.time > timeWindow
    /\ Last(graphData.position).y < -100
    /\ Last(graphData.acceleration).y > 10 * Resolution(calculateOmega(simulationMode, params))

\* C18: a frame of the running simulation advances the elapsed time by
\* exactly min(timestamp - lastTimestamp, 0.1 s) * timeScale, lastTimestamp
\* being the frame's own timestamp on the first frame after a start; so no
\* frame advances it by more than 0.1 s * timeScale.
C18_TickAdvancesByClampedDelta ==
    [][(lastOp'.name = "frame" /\ simulation.isRunning)
        => LET last == IF simulation.lastTimestamp = 0 THEN now'
                       ELSE simulation.lastTimestamp
           IN  /\ simulation'.time
                     = simulation.time + Min(now' - last, MaxDelta) * simulation.timeScale
               /\ simulation'.time - simulation.time
                     <= MaxDelta * simulation.timeScale]_vars

\* a frame has come more than 0.1 s after the previous one and advanced the
\* elapsed time by 0.1 s
C18_Witness ==
    /\ lastOp.name = "frame"
    /\ lastOp.running
    /\ Len(graphData.position) >= 2
    /\ simulation.time = Last(graphData.position).x
    /\ simulation.time - graphData.position[Len(graphData.position) - 1].x = MaxDelta

\* C19: the first frame after a start that set the simulation running (from
\* idle or from paused) leaves the elapsed time as it was and sets
\* lastTimestamp to the frame's timestamp, so a resumed run continues from
\* the elapsed time it had when paused.
C19_FirstTickSeedsOnly ==
    [][(/\ lastOp'.name = "frame"
        /\ lastOp.name = "start"
        /\ ~lastOp.running
        /\ simulation.isRunning)
        => /\ simulation'.time = simulation.time
           /\ simulation'.lastTimestamp = now']_vars

\* a run resumed after a pause has had its first frame: the elapsed time is
\* that of the last sample before the pause
C19_Witness ==
    /\ lastOp.name = "frame"
    /\ lastOp.running
    /\ simulation.time > 0
    /\ simulation.lastTimestamp = now
    /\ Len(graphData.position) >= 2
    /\ Last(graphData.position).x = simulation.time
    /\ graphData.position[Len(graphData.position) - 1].x = simulation.time

\* the angles omega*t + phase, modulo 2*Pi, at which each signal has its
\* maxima, its minima and its zero crossings: position A*cos, velocity
\* -A*omega*sin, acceleration -A*omega^2*cos
AnalyticAngles ==
    [position     |-> [maximos |-> {0}, minimos |-> {Pi},
                       ceros |-> {HalfPi, 3 * HalfPi}],
     velocity     |-> [maximos |-> {3 * HalfPi}, minimos |-> {HalfPi},
                       ceros |-> {0, Pi}],
     acceleration |-> [maximos |-> {Pi}, minimos |-> {0},
                       ceros |-> {HalfPi, 3 * HalfPi}]]

\* turns n that can give a time in [0, maxTime], and some around them
TurnsUpTo(maxTime, omega, phi) == (-3) .. ((maxTime * omega + phi * 1000) \div TwoPi + 3)

\* C20: right after a frame of the running simulation each chart holds every
\* analytic maximum, minimum and zero crossing of its signal whose time t
\* has xmin <= t <= xmax and t <= elapsed time, the points lying exactly on
\* one of the three limits included.
C20_KeyPointsComplete ==
    (lastOp.name = "frame" /\ lastOp.running)
        => LET omega == calculateOmega(simulationMode, params)
           IN  \A type \in SignalTypes : \A l \in KeyPointLists :
                 \A angle \in AnalyticAngles[type][l] :
                   \A n \in TurnsUpTo(charts[type].xmax, omega, params.phase) :
                     LET t == KeyTime(angle + TwoPi * n, params.phase, omega)
                     IN  (/\ KeyTimeGeq(t, charts[type].xmin)
                          /\ KeyTimeLeq(t, charts[type].xmax)
                          /\ KeyTimeLeq(t, simulation.time))
                           => \E i \in 1..Len(charts[type].keyPoints[l]) :
                                 charts[type].keyPoints[l][i].x = t

\* the first frame of a run with phase 0: the position maximum at t = 0 lies
\* on the lower limit of the window and on the elapsed time, and is drawn
C20_Witness ==
    /\ lastOp.name = "frame"
    /\ lastOp.running
    /\ params.phase = 0
    /\ simulation.time = 0
    /\ charts.position.xmin = 0
    /\ Len(charts.position.keyPoints.maximos) = 1
    /\ charts.position.keyPoints.maximos[1].x.num = 0

\* the value of a signal where omega*t + phase is the given angle, as
\* calculatePosition, calculateVelocity and calculateAcceleration compute it,
\* in the unit of the chart
SignalAt(type, mode, p, angle) ==
    LET A     == getAmplitude(mode, p)
        omega == calculateOmega(mode, p)
    IN  CASE type = "position" ->
               positionForGraph(mode, (A * Cos(angle)) \div 1000)
          [] type = "velocity" ->
               ((((-A) * omega) \div 1000) * Sin(angle)) \div 1000
          [] type = "acceleration" ->
               ((((((-A) * omega) \div 1000) * omega) \div 1000) * Cos(angle)) \div 1000

\* the positive peak of a signal: A, A*omega, A*omega^2, in the unit of the chart
Peak(type, mode, p) ==
    LET A     == getAmplitude(mode, p)
        omega == calculateOmega(mode, p)
    IN  CASE type = "position"     -> positionForGraph(mode, A)
          [] type = "velocity"     -> (A * omega) \div 1000
          [] type = "acceleration" -> (((A * omega) \div 1000) * omega) \div 1000

\* the value a list of key points stands for
KeyValue(l, type, mode, p) ==
    CASE l = "maximos" -> Peak(type, mode, p)
      [] l = "minimos" -> -Peak(type, mode, p)
      [] l = "ceros"   -> 0

\* what the roundings of the fixed-point products A*omega and A*omega*omega
\* can separate two computations of the same peak by
Rounding(type, omega) ==
    IF type = "acceleration" THEN omega \div 1000 + 2 ELSE 1

\* C21: every key point of a chart is at the right phase of its signal: at
\* its time the angle omega*t + phase is one of the analytic angles of its
\* kind (for position 2*Pi*n for maxima, (2n+1)*Pi for minima, Pi/2 + Pi*n
\* for zeros), the signal has the value of its positive peak (maxima), its
\* negative peak (minima) or 0 (zeros), and that value is the point's y.
C21_KeyPointsAtRightPhase ==
    (lastOp.name = "frame" /\ lastOp.running)
        => \A type \in SignalTypes : \A l \in KeyPointLists :
             \A i \in 1..Len(charts[type].keyPoints[l]) :
                LET point == charts[type].keyPoints[l][i]
                    angle == point.x.num + params.phase * 1000
                    value == KeyValue(l, type, simulationMode, params)
                    tol   == Rounding(type, calculateOmega(simulationMode, params))
                IN  /\ (angle % TwoPi) \in AnalyticAngles[type][l]
                    /\ Abs(SignalAt(type, simulationMode, params, angle) - value) <= tol
                    /\ Abs(point.y - value) <= tol

\* a frame of a pendulum run with a phase other than the initial one has
\* drawn maxima, minima and zeros of all three signals
C21_Witness ==
    /\ lastOp.name = "frame"
    /\ lastOp.running
    /\ simulationMode = "pendulum"
    /\ params.phase = OtherValue.phase
    /\ simulation.time > timeWindow
    /\ \A type \in SignalTypes : \A l \in KeyPointLists :
          Len(charts[type].keyPoints[l]) >= 2

\* the three lists of key points are empty
NoneDrawn(k) == k.maximos = <<>> /\ k.minimos = <<>> /\ k.ceros = <<>>

\* C22: every key point of a chart has xmin <= time <= xmax, and each list
\* is strictly increasing in time (no time twice); and calculateKeyPoints
\* called with minTime > maxTime returns three empty lists.
C22_KeyPointsInWindowAscending ==
    (lastOp.name = "frame" /\ lastOp.running)
        => \A type \in SignalTypes :
             /\ \A l \in KeyPointLists :
                  LET points == charts[type].keyPoints[l]
                  IN  /\ \A i \in 1..Len(points) :
                            /\ KeyTimeGeq(points[i].x, charts[type].xmin)
                            /\ KeyTimeLeq(points[i].x, charts[type].xmax)
                      /\ \A i \in 1..(Len(points) - 1) :
                            /\ points[i].x.den = points[i + 1].x.den
                            /\ points[i].x.num < points[i + 1].x.num
             /\ NoneDrawn(calculateKeyPoints(charts[type].xmax, charts[type].xmin, type,
                                             simulationMode, params, simulation.time))
             /\ NoneDrawn(calculateKeyPoints(charts[type].xmin + 1, charts[type].xmin, type,
                                             simulationMode, params, simulation.time))

\* a frame has drawn several zeros, maxima and minima in a window that has
\* moved past 0
C22_Witness ==
    /\ lastOp.name = "frame"
    /\ lastOp.running
    /\ charts.velocity.xmin > 0
    /\ Len(charts.velocity.keyPoints.ceros) >= 4
    /\ Len(charts.velocity.keyPoints.maximos) >= 2
    /\ Len(charts.velocity.keyPoints.minimos) >= 2

\* C23: the sample a frame appends carries the elapsed time the frame has
\* advanced to, and the key points of the frame are filtered against that
\* same time; so in every reachable state where the series are not empty
\* the time of the newest sample of each series equals the elapsed time.
C23_NewestSampleAtElapsedTime ==
    /\ \A k \in Series :
          graphData[k] # <<>> => Last(graphData[k]).x = simulation.time
    /\ (lastOp.name = "frame" /\ lastOp.running)
          => \A type \in SignalTypes :
               charts[type] = updateChart(type, simulationMode, params,
                                          Last(graphData.position).x)

\* the ratios C24 is checked for in a state: that of the mouse position and
\* the ends and the middle of [-1, 1]
RatiosOf(input) ==
    { DragRatio(input, simulationMode, params), -1000, 0, 1000 }

\* C24: in a drag, for the dragged position and for the ratios -1, 0 and 1,
\* the loop 'while internalTime < 0 add one period' ends after at most one
\* addition, and the internalTime it leaves lies in [0, period).
C24_InternalTimeNormalized ==
    lastOp.name = "mousemove"
        => \A ratio \in RatiosOf(lastOp.text.num) :
             LET raw == RawInternalTime(ratio, simulationMode, params)
                 t   == InternalTime(ratio, simulationMode, params)
             IN  /\ t.den > 0
                 /\ t.num >= 0
                 /\ t.num < TwoPi
                 /\ t.num - raw.num \in {0, TwoPi}

\* the body has been dragged with the largest phase, and the loop has added
\* one period to a negative internalTime
C24_Witness ==
    /\ lastOp.name = "mousemove"
    /\ params.phase = RangeMax.phase
    /\ simulationMode = "pendulum"
    /\ LET ratio == DragRatio(lastOp.text.num, simulationMode, params)
       IN  /\ RawInternalTime(ratio, simulationMode, params).num < 0
           /\ InternalTime(ratio, simulationMode, params).num
                 = RawInternalTime(ratio, simulationMode, params).num + TwoPi

\* C25: an accepted input on one field (a text inside the range, or the
\* value of the slider) commits the value to that field and flags it valid,
\* and changes no other parameter and no other flag; it leaves the mode, the
\* simulation record (running flag, elapsed time), the pending frame
\* requests and the three series with all their samples as they were.
C25_AcceptedSetTouchesOneField ==
    [][(/\ lastOp'.name \in {"text", "slider"}
        /\ ~Rejected(lastOp'.field, lastOp'.text))
        => /\ params'[lastOp'.field] = parseFloat(lastOp'.text)
           /\ validationState'[lastOp'.field]
           /\ \A g \in Fields \ {lastOp'.field} :
                 /\ params'[g] = params[g]
                 /\ validationState'[g] = validationState[g]
           /\ simulationMode' = simulationMode
           /\ simulation' = simulation
           /\ frames' = frames
           /\ graphData' = graphData]_vars

\* a text has been accepted on one field while another field is flagged
\* invalid and the simulation is running with elapsed time and samples
C25_Witness ==
    /\ lastOp.name = "text"
    /\ ~Rejected(lastOp.field, lastOp.text)
    /\ params[lastOp.field] = OtherValue[lastOp.field]
    /\ \E g \in Fields \ {lastOp.field} : ~validationState[g]
    /\ simulation.isRunning
    /\ simulation.time > 0
    /\ Len(graphData.position) >= 2

\* C26: in every reachable state the three series have the same length
\* and, at each index, the same sample time.
C26_SeriesAligned ==
    \A k \in Series :
        /\ Len(graphData[k]) = Len(graphData.position)
        /\ \A i \in 1..Len(graphData[k]) :
              graphData[k][i].x = graphData.position[i].x

\* samples have been appended and the oldest of them evicted
C26_Witness ==
    /\ Len(graphData.position) > 0
    /\ Len(appended.position) > Len(graphData.position)
    /\ graphData.position[1].x > 0

\* the pending frame requests are exactly the one animationId names while
\* the simulation is running, and none while it is not
OneFrameIffRunning ==
    /\ (simulation.animationId # NoFrame) <=> simulation.isRunning
    /\ frames = IF simulation.isRunning THEN {simulation.animationId} ELSE {}
    /\ Cardinality(frames) <= 1

\* C27: in every reachable state a frame request is pending (animationId is
\* not null) if and only if the simulation is running, and at most one is
\* outstanding; start while already running requests no second frame and
\* leaves lastTimestamp as it is.
C27_OneFrameIffRunning ==
    [][/\ OneFrameIffRunning
       /\ OneFrameIffRunning'
       /\ (lastOp'.name = "start" /\ simulation.isRunning)
            => /\ simulation' = simulation
               /\ frames' = frames]_vars

\* start has been pressed on a running simulation whose frames have set
\* lastTimestamp
C27_Witness ==
    /\ lastOp.name = "start"
    /\ lastOp.running
    /\ simulation.isRunning
    /\ simulation.lastTimestamp > 0
    /\ simulation.time > 0
    /\ frames = {simulation.animationId}

\* C28: while a drag is in progress the elapsed time is 0 and the three
\* series are empty, whatever operations and frames come between the mouse
\* down and the release; and a mouse down that misses the body starts no
\* drag and changes nothing.
C28_DragKeepsTimeZeroAndSeriesEmpty ==
    [][/\ dragState'.isDragging
            => /\ simulation'.time = 0
               /\ \A k \in Series : graphData'[k] = <<>>
       /\ lastOp'.name = "mousedown-miss"
            => UNCHANGED <<simulationMode, params, simulation, validationState,
                           dragState, graphData, charts, current, startBtn,
                           frames, now, dragged>>]_vars

\* C29: a rejected text received while the simulation is running leaves
\* the simulation record (running flag, elapsed time), the pending frame
\* request and the three series as they were; and a frame of a running
\* simulation with a field flagged invalid runs like any other: it appends a
\* sample and requests the next frame. Validity stops only start.
C29_RejectedInputKeepsRunning ==
    [][/\ (lastOp'.name = "text" /\ Rejected(lastOp'.field, lastOp'.text)
              /\ simulation.isRunning)
            => /\ simulation' = simulation
               /\ frames' = frames
               /\ graphData' = graphData
               /\ hasErrors(validationState')
       /\ (lastOp'.name = "frame" /\ simulation.isRunning
              /\ hasErrors(validationState))
            => /\ simulation'.isRunning
               /\ frames' = {simulation'.animationId}
               /\ Len(graphData'.position) = Len(graphData.position) + 1]_vars

\* a running simulation has had a frame after one of its fields was flagged
\* invalid
C29_Witness ==
    /\ lastOp.name = "frame"
    /\ lastOp.running
    /\ simulation.isRunning
    /\ hasErrors(validationState)
    /\ startBtn.disabled
    /\ simulation.time > 0

\* some field is flagged invalid
Flagged(vs) == \E f \in Fields : ~vs[f]

\* C30: the validity flags are changed only by a text or a slider input;
\* a flag is cleared only by an accepted input of its own field; the start
\* button is disabled exactly while some flag is set, whatever the mode; and
\* a start with some flag set, in whichever mode, changes neither the
\* simulation nor the frame requests. So reset, pause, mode switch and drag
\* leave a field invalid and start disabled.
C30_FlagsChangedOnlyByInputs ==
    [][/\ validationState' # validationState
            => lastOp'.name \in {"text", "slider"}
       /\ \A f \in Fields :
              (~validationState[f] /\ validationState'[f])
                  => /\ lastOp'.field = f
                     /\ ~Rejected(f, lastOp'.text)
       /\ startBtn'.disabled <=> Flagged(validationState')
       /\ (lastOp'.name = "start" /\ Flagged(validationState))
            => /\ simulation' = simulation
               /\ frames' = frames]_vars

\* the mode has just been switched to the spring while the pendulum length,
\* not shown in that mode, is flagged invalid
C30_Witness ==
    /\ lastOp.name = "mode"
    /\ lastOp.field = "spring"
    /\ simulationMode = "spring"
    /\ ~validationState["pendulumLength"]
    /\ validationState["mass"]
    /\ startBtn.disabled

====
